---- MODULE Spec2Model ----
(***************************************************************************)
(* Model of the meeting feature of 3akai-ux:                               *)
(*   - the API client  (api.meeting: one function per REST endpoint), and  *)
(*   - the page controller (ui/js/meeting.js).                             *)
(* JavaScript values are kept apart by kind: undefined, null, the empty    *)
(* string and real values are different values of the model.               *)
(***************************************************************************)
EXTENDS Integers, Sequences, FiniteSets, TLC

VARIABLES
    inflight,         \* slot -> the $.ajax settings of the request in flight, or NoRequest
    last,             \* what the last step did: call / completion / page event, and its effects
    meetingProfile,   \* meeting.js:26   the cached profile (JsNull before the load)
    lhNavPages,       \* meeting.js:34   the page structure captured by setUpNavigation
    clip,             \* what #meeting-clip-container was last rendered from
    widgetContainer,  \* the widgets inside #lhnavigation-widget-meeting
    contextHandlers,  \* number of 'oae.context.get' handlers bound by setUpContext
    readyHandlers,    \* number of 'oae.ready.lhnavigation' handlers bound by setUpNavigation
    pageShown,        \* number of oae.api.util.showPage() calls
    subscriptions,    \* signatures passed to oae.api.push.subscribe, in order
    redirects         \* the redirects made, in order

vars == <<inflight, last, meetingProfile, lhNavPages, clip, widgetContainer,
          contextHandlers, readyHandlers, pageShown, subscriptions, redirects>>

pageVars == <<meetingProfile, lhNavPages, clip, widgetContainer,
              contextHandlers, readyHandlers, pageShown, subscriptions, redirects>>

-----------------------------------------------------------------------------
(* Bounds *)

\* requests that may be outstanding at the same time
MaxInflight == 1
\* distinct display names a profile may carry
MaxNames == 2
\* widgets that may address a context request to the controller
MaxWidgets == 2
\* longest push batch delivered
MaxBatch == 2
\* API requests in flight at the same time when concurrent calls are examined
MaxOutstanding == 2

-----------------------------------------------------------------------------
(* JavaScript values *)

Undefined == "undefined"
Null == "null"
EmptyString == ""

JsUndefined == [t |-> "undefined"]
JsNull == [t |-> "null"]

\* !x for a string-or-absent argument
Truthy(v) == v \notin {Undefined, Null, EmptyString}

\* arguments[i] of a call made with the argument list args
Arg(args, i) == IF i <= Len(args) THEN args[i] ELSE JsUndefined

Slots == 1..MaxInflight
NoRequest == [op |-> "none"]

\* values a caller may pass for an identifier, topic or email argument
IdArgs == {Undefined, EmptyString, "m1"}
\* values a caller may pass for a params / updatedMembers map
MapArgs == {[t |-> "undefined"], [t |-> "object", keys |-> {}], [t |-> "object", keys |-> {"k1"}]}
\* values a caller may pass for a principals list
ListArgs == {[t |-> "undefined"], [t |-> "array", items |-> <<>>], [t |-> "array", items |-> <<"u1">>]}
\* the callback the caller of slot s passes, when it passes one
CallerCallback(s) == <<"cb", s>>
NoCallback == <<"undefined", 0>>
Noop == <<"noop", 0>>
ProfileCallback == <<"getMeetingProfile", 0>>
CallbackArgs(s) == {NoCallback, CallerCallback(s)}

\* HTTP statuses and bodies of failed responses, bodies of successful ones
Statuses == {401, 404, 500}
ErrorBodies == {"e1"}
NoData == [t |-> "none"]

-----------------------------------------------------------------------------
(* API client: src/unnamed/part_000 *)

\* `throw new Error(msg)`, or the TypeError of reading a property of undefined
Throw(type, msg) == [threw |-> TRUE, error |-> type, msg |-> msg, ajax |-> NoRequest]
\* `$.ajax(settings)`
Ajax(settings) == [threw |-> FALSE, error |-> "", msg |-> "", ajax |-> settings]

\* a function that forgets to default its callback
DefaultCallback_missing(callback) == callback

\* `callback = callback || function() {};`
DefaultCallback(callback) == IF callback = NoCallback THEN Noop ELSE callback

\* `!params || _.keys(params).length === 0`
EmptyMap(m) == m.t = "undefined" \/ Cardinality(m.keys) = 0

getMeeting(meetingId, callback) ==
    IF ~Truthy(meetingId) THEN Throw("Error", "A valid meeting id should be provided")
    ELSE Ajax([op |-> "getMeeting", url |-> <<"/api/meeting/", meetingId>>, type |-> "GET",
               data |-> NoData, callback |-> callback,
               success |-> "callback(null, data)", error |-> "callback(err)", statusCode |-> {}])

createMeeting(displayName, callback) ==
    IF ~Truthy(displayName) THEN Throw("Error", "A valid description topic should be provided")
    ELSE Ajax([op |-> "createMeeting", url |-> <<"/api/meeting/create">>, type |-> "POST",
               data |-> [t |-> "create", displayName |-> displayName],
               callback |-> DefaultCallback(callback),
               success |-> "callback(null, data)", error |-> "callback(err)", statusCode |-> {}])

updateMeeting(meetingId, params, callback) ==
    IF ~Truthy(meetingId) THEN Throw("Error", "A valid meeting id should be provided")
    ELSE IF EmptyMap(params) THEN Throw("Error", "At least one update parameter should be provided")
    ELSE Ajax([op |-> "updateMeeting", url |-> <<"/api/meeting/", meetingId>>, type |-> "POST",
               data |-> params, callback |-> DefaultCallback(callback),
               success |-> "callback(null, data)", error |-> "callback(err)", statusCode |-> {}])

startMeeting(meetingId, callback) ==
    IF ~Truthy(meetingId) THEN Throw("Error", "A valid meeting id should be provided")
    ELSE Ajax([op |-> "startMeeting", url |-> <<"/api/meeting/", meetingId, "/start">>, type |-> "POST",
               data |-> NoData, callback |-> DefaultCallback(callback),
               success |-> "callback(null)", error |-> "callback(err)", statusCode |-> {}])

deleteMeeting(meetingId, callback) ==
    IF ~Truthy(meetingId) THEN Throw("Error", "A valid meeting id should be provided")
    ELSE Ajax([op |-> "deleteMeeting", url |-> <<"/api/meeting/", meetingId>>, type |-> "DELETE",
               data |-> NoData, callback |-> DefaultCallback(callback),
               success |-> "callback(null)", error |-> "callback(err)", statusCode |-> {}])

getMembers(meetingId, start, limit, callback) ==
    IF ~Truthy(meetingId) THEN Throw("Error", "A valid meeting id should be provided")
    ELSE Ajax([op |-> "getMembers", url |-> <<"/api/meeting/", meetingId, "/members">>, type |-> "GET",
               data |-> [t |-> "page", start |-> start, limit |-> limit], callback |-> callback,
               success |-> "callback(null, data)", error |-> "callback(err)", statusCode |-> {}])

updateMembers(meetingId, updatedMembers, callback) ==
    IF ~Truthy(meetingId) THEN Throw("Error", "A valid meeting id should be provided")
    ELSE IF EmptyMap(updatedMembers)
         THEN Throw("Error", "The updatedMembers hash should contain at least 1 update")
    ELSE Ajax([op |-> "updateMembers", url |-> <<"/api/meeting/", meetingId, "/members">>, type |-> "POST",
               data |-> updatedMembers, callback |-> DefaultCallback(callback),
               success |-> "callback(null)", error |-> "callback(err)", statusCode |-> {}])

shareMeeting(meetingId, principals, callback) ==
    IF ~Truthy(meetingId) THEN Throw("Error", "A meeting id should be provided")
    ELSE IF principals.t = "undefined"
         THEN Throw("TypeError", "Cannot read property 'length' of undefined")
    ELSE IF Len(principals.items) = 0
         THEN Throw("Error", "A user or group to share with should be provided")
    ELSE Ajax([op |-> "shareMeeting", url |-> <<"/api/meeting/", meetingId, "/share">>, type |-> "POST",
               data |-> [t |-> "share", members |-> principals.items],
               callback |-> DefaultCallback(callback),
               success |-> "callback(null, data)", error |-> "callback(err)", statusCode |-> {}])

getLibrary(principalId, start, limit, callback) ==
    IF ~Truthy(principalId) THEN Throw("Error", "A user or group id should be provided")
    ELSE Ajax([op |-> "getLibrary", url |-> <<"/api/meeting/library/", principalId>>, type |-> "GET",
               data |-> [t |-> "page", start |-> start, limit |-> limit], callback |-> callback,
               success |-> "callback(null, data)", error |-> "callback(err)", statusCode |-> {}])

deleteMeetingFromLibrary(principalId, meetingId, callback) ==
    IF ~Truthy(principalId) THEN Throw("Error", "A valid user or group id should be provided")
    ELSE IF ~Truthy(meetingId) THEN Throw("Error", "A valid meeting id should be provided")
    ELSE Ajax([op |-> "deleteMeetingFromLibrary",
               url |-> <<"/api/meeting/library/", principalId, "/", meetingId>>, type |-> "DELETE",
               data |-> NoData, callback |-> DefaultCallback(callback),
               success |-> "callback(null)", error |-> "callback(err)", statusCode |-> {}])

endMeeting(meetingId, callback) ==
    IF ~Truthy(meetingId) THEN Throw("Error", "A valid meeting id should be provided")
    ELSE Ajax([op |-> "endMeeting", url |-> <<"/api/meeting/", meetingId, "/end">>, type |-> "GET",
               data |-> NoData, callback |-> DefaultCallback(callback),
               success |-> "callback(null)", error |-> "callback(err)", statusCode |-> {}])

infoMeeting(meetingId, callback) ==
    IF ~Truthy(meetingId) THEN Throw("Error", "A valid meeting id should be provided")
    ELSE Ajax([op |-> "infoMeeting", url |-> <<"/api/meeting/", meetingId, "/info">>, type |-> "GET",
               data |-> NoData, callback |-> DefaultCallback(callback),
               success |-> "callback(null, data)", error |-> "callback(err, null)", statusCode |-> {}])

getRecording(meetingId, callback) ==
    IF ~Truthy(meetingId) THEN Throw("Error", "A valid meeting id should be provided")
    ELSE Ajax([op |-> "getRecording", url |-> <<"/api/recording/", meetingId>>, type |-> "GET",
               data |-> NoData, callback |-> DefaultCallback(callback),
               success |-> "callback(null, data)", error |-> "callback(err, null)", statusCode |-> {404}])

updateRecording(recordingId, publish, callback) ==
    IF ~Truthy(recordingId) THEN Throw("Error", "A valid recording id should be provided")
    ELSE Ajax([op |-> "updateRecording", url |-> <<"/api/recording/", recordingId>>, type |-> "PATCH",
               data |-> [t |-> "publish", publish |-> ~publish],
               callback |-> DefaultCallback(callback),
               success |-> "callback(null, data)", error |-> "callback(err, null)", statusCode |-> {}])

deleteRecording(recordingId, callback) ==
    IF ~Truthy(recordingId) THEN Throw("Error", "A valid recording id should be provided")
    ELSE Ajax([op |-> "deleteRecording", url |-> <<"/api/recording/", recordingId>>, type |-> "DELETE",
               data |-> NoData, callback |-> DefaultCallback(callback),
               success |-> "callback(null, data)", error |-> "callback(err, null)", statusCode |-> {}])

getInvitations(meetingId, callback) ==
    IF ~Truthy(meetingId) THEN Throw("Error", "A valid meeting id should be provided")
    ELSE Ajax([op |-> "getInvitations", url |-> <<"/api/meeting/", meetingId, "/invitations">>, type |-> "GET",
               data |-> NoData, callback |-> callback,
               success |-> "callback(null, data)", error |-> "callback(err)", statusCode |-> {}])

resendInvitation(meetingId, email, callback) ==
    IF ~Truthy(meetingId) THEN Throw("Error", "A valid meeting id should be provided")
    ELSE Ajax([op |-> "resendInvitation",
               url |-> <<"/api/meeting/", meetingId, "/invitations/", email, "/resend">>, type |-> "POST",
               data |-> NoData, callback |-> callback,
               success |-> "callback()", error |-> "callback(err)", statusCode |-> {}])

\* the argument list the request's `success` function passes to the callback
SuccessArgs(kind, data) ==
    CASE kind = "callback(null, data)" -> <<JsNull, data>>
      [] kind = "callback(null)"       -> <<JsNull>>
      [] kind = "callback()"           -> <<>>

\* an error object carrying jQuery's textStatus where the response body belongs
ErrorObject_textStatus(status, responseText) == [t |-> "error", code |-> status, msg |-> "error"]

\* the error object built by every `error` function
ErrorObject(status, responseText) == [t |-> "error", code |-> status, msg |-> responseText]

\* the argument list the request's `error` function passes to the callback
ErrorArgs(kind, status, responseText) ==
    CASE kind = "callback(err)"       -> <<ErrorObject(status, responseText)>>
      [] kind = "callback(err, null)" -> <<ErrorObject(status, responseText), JsNull>>

\* a completion that calls the callback two times
InvokeCallback_twice(callback, args) ==
    IF callback = NoCallback
    THEN [raised |-> "TypeError", invocations |-> <<>>]
    ELSE [raised |-> "", invocations |-> <<[cb |-> callback, args |-> args], [cb |-> callback, args |-> args]>>]

\* Calling `callback(args)`: a TypeError when no function was passed and none defaulted
InvokeCallback(callback, args) ==
    IF callback = NoCallback
    THEN [raised |-> "TypeError", invocations |-> <<>>]
    ELSE [raised |-> "", invocations |-> <<[cb |-> callback, args |-> args]>>]

\* the `statusCode` handlers that run for the response (they only log)
StatusCodeLogs(settings, status) ==
    IF status \in settings.statusCode THEN <<"No recording found">> ELSE <<>>

-----------------------------------------------------------------------------
(* Calls of the API client and completions of its requests *)

\* bodies of successful responses
Bodies == {[t |-> "body", body |-> "d1"]}

\* the lowest slot without a request in flight, 0 when all are taken
FreeSlot ==
    IF \E s \in DOMAIN inflight : inflight[s] = NoRequest
    THEN CHOOSE s \in DOMAIN inflight :
             inflight[s] = NoRequest /\ \A u \in DOMAIN inflight : inflight[u] = NoRequest => s <= u
    ELSE 0

\* One synchronous call of an API function: it throws, or it hands its settings to $.ajax
Invoke(op, args, result) ==
    /\ IF result.threw
       THEN /\ inflight' = inflight
            /\ last' = [kind |-> "throw", op |-> op, args |-> [args EXCEPT !.callback = NoCallback], slot |-> 0,
                        error |-> result.error, msg |-> result.msg, invocations |-> <<>>]
       ELSE /\ FreeSlot # 0
            /\ inflight' = [inflight EXCEPT ![FreeSlot] = result.ajax]
            /\ last' = [kind |-> "issued", op |-> op, args |-> args, slot |-> FreeSlot,
                        error |-> "", msg |-> "", invocations |-> <<>>]
    /\ UNCHANGED pageVars

Call_getMeeting ==
    \E meetingId \in IdArgs, callback \in CallbackArgs(FreeSlot) :
        Invoke("getMeeting", [meetingId |-> meetingId, callback |-> callback],
               getMeeting(meetingId, callback))

Call_createMeeting ==
    \E displayName \in IdArgs, callback \in CallbackArgs(FreeSlot) :
        Invoke("createMeeting", [displayName |-> displayName, callback |-> callback],
               createMeeting(displayName, callback))

Call_updateMeeting ==
    \E meetingId \in IdArgs, params \in MapArgs, callback \in CallbackArgs(FreeSlot) :
        Invoke("updateMeeting", [meetingId |-> meetingId, params |-> params, callback |-> callback],
               updateMeeting(meetingId, params, callback))

Call_startMeeting ==
    \E meetingId \in IdArgs, callback \in CallbackArgs(FreeSlot) :
        Invoke("startMeeting", [meetingId |-> meetingId, callback |-> callback],
               startMeeting(meetingId, callback))

Call_deleteMeeting ==
    \E meetingId \in IdArgs, callback \in CallbackArgs(FreeSlot) :
        Invoke("deleteMeeting", [meetingId |-> meetingId, callback |-> callback],
               deleteMeeting(meetingId, callback))

Call_getMembers ==
    \E meetingId \in IdArgs, callback \in CallbackArgs(FreeSlot) :
        Invoke("getMembers", [meetingId |-> meetingId, callback |-> callback],
               getMembers(meetingId, Null, "10", callback))

Call_updateMembers ==
    \E meetingId \in IdArgs, updatedMembers \in MapArgs, callback \in CallbackArgs(FreeSlot) :
        Invoke("updateMembers",
               [meetingId |-> meetingId, updatedMembers |-> updatedMembers, callback |-> callback],
               updateMembers(meetingId, updatedMembers, callback))

Call_shareMeeting ==
    \E meetingId \in IdArgs, principals \in ListArgs, callback \in CallbackArgs(FreeSlot) :
        Invoke("shareMeeting",
               [meetingId |-> meetingId, principals |-> principals, callback |-> callback],
               shareMeeting(meetingId, principals, callback))

Call_getLibrary ==
    \E principalId \in IdArgs, callback \in CallbackArgs(FreeSlot) :
        Invoke("getLibrary", [principalId |-> principalId, callback |-> callback],
               getLibrary(principalId, Null, "10", callback))

Call_deleteMeetingFromLibrary ==
    \E principalId \in IdArgs, meetingId \in IdArgs, callback \in CallbackArgs(FreeSlot) :
        Invoke("deleteMeetingFromLibrary",
               [principalId |-> principalId, meetingId |-> meetingId, callback |-> callback],
               deleteMeetingFromLibrary(principalId, meetingId, callback))

Call_endMeeting ==
    \E meetingId \in IdArgs, callback \in CallbackArgs(FreeSlot) :
        Invoke("endMeeting", [meetingId |-> meetingId, callback |-> callback],
               endMeeting(meetingId, callback))

Call_infoMeeting ==
    \E meetingId \in IdArgs, callback \in CallbackArgs(FreeSlot) :
        Invoke("infoMeeting", [meetingId |-> meetingId, callback |-> callback],
               infoMeeting(meetingId, callback))

Call_getRecording ==
    \E meetingId \in IdArgs, callback \in CallbackArgs(FreeSlot) :
        Invoke("getRecording", [meetingId |-> meetingId, callback |-> callback],
               getRecording(meetingId, callback))

Call_updateRecording ==
    \E recordingId \in IdArgs, publish \in BOOLEAN, callback \in CallbackArgs(FreeSlot) :
        Invoke("updateRecording",
               [recordingId |-> recordingId, publish |-> publish, callback |-> callback],
               updateRecording(recordingId, publish, callback))

Call_deleteRecording ==
    \E recordingId \in IdArgs, callback \in CallbackArgs(FreeSlot) :
        Invoke("deleteRecording", [recordingId |-> recordingId, callback |-> callback],
               deleteRecording(recordingId, callback))

Call_getInvitations ==
    \E meetingId \in IdArgs, callback \in CallbackArgs(FreeSlot) :
        Invoke("getInvitations", [meetingId |-> meetingId, callback |-> callback],
               getInvitations(meetingId, callback))

Call_resendInvitation ==
    \E meetingId \in IdArgs, email \in IdArgs, callback \in CallbackArgs(FreeSlot) :
        Invoke("resendInvitation", [meetingId |-> meetingId, email |-> email, callback |-> callback],
               resendInvitation(meetingId, email, callback))

\* The transport completes the request of slot s successfully: its `success` function runs,
\* then its `statusCode` handlers, unless `success` raised
AjaxSuccess ==
    \E s \in DOMAIN inflight, data \in Bodies :
        /\ inflight[s] # NoRequest
        /\ inflight[s].callback # ProfileCallback
        /\ LET r == inflight[s]
               inv == InvokeCallback(r.callback, SuccessArgs(r.success, data))
           IN  /\ inflight' = [inflight EXCEPT ![s] = NoRequest]
               /\ last' = [kind |-> "success", op |-> r.op, slot |-> s, request |-> r,
                           status |-> 200, body |-> data,
                           raised |-> inv.raised, invocations |-> inv.invocations,
                           logs |-> IF inv.raised = "" THEN StatusCodeLogs(r, 200) ELSE <<>>]
        /\ UNCHANGED pageVars

\* The transport fails the request of slot s with a status and a body: its `error` function
\* runs, then its `statusCode` handlers, unless `error` raised
AjaxError ==
    \E s \in DOMAIN inflight, status \in Statuses, responseText \in ErrorBodies :
        /\ inflight[s] # NoRequest
        /\ inflight[s].callback # ProfileCallback
        /\ LET r == inflight[s]
               inv == InvokeCallback(r.callback, ErrorArgs(r.error, status, responseText))
           IN  /\ inflight' = [inflight EXCEPT ![s] = NoRequest]
               /\ last' = [kind |-> "error", op |-> r.op, slot |-> s, request |-> r,
                           status |-> status, body |-> responseText,
                           raised |-> inv.raised, invocations |-> inv.invocations,
                           logs |-> IF inv.raised = "" THEN StatusCodeLogs(r, status) ELSE <<>>]
        /\ UNCHANGED pageVars

-----------------------------------------------------------------------------
(* Page controller: src/ui/js/meeting.js *)

Names == 1..MaxNames
Widgets == 1..MaxWidgets

\* the permission flags the server computes for the viewer: anonymous viewer, member, manager
Permissions ==
    {[canShare |-> FALSE, canPost |-> FALSE, isManager |-> FALSE],
     [canShare |-> TRUE, canPost |-> TRUE, isManager |-> FALSE],
     [canShare |-> TRUE, canPost |-> TRUE, isManager |-> TRUE]}

\* meeting profiles the server or an editing widget may deliver. displayName stands for
\* every descriptive field of the profile
Profiles ==
    {[t |-> "profile", displayName |-> n, canShare |-> p.canShare, canPost |-> p.canPost,
      isManager |-> p.isManager, signature |-> "sig"] : n \in Names, p \in Permissions}

\* `var meetingId = 'd:' + $.url().segment(2) + ':' + $.url().segment(3);`
meetingId == "d:t1:r1"
\* `var baseUrl = '/meeting/' + $.url().segment(2) + '/' + $.url().segment(3);`
baseUrl == "/meeting/t1/r1"

\* `oae.data.me.id`
Me == "me"
Actors == {Me, "other"}
ActivityTypes == {"meeting-update", "meeting-update-visibility", "meeting-share"}
supportedActivities == {"meeting-update", "meeting-update-visibility"}

\* an effect the controller has on its collaborators: an event triggered, a handler bound,
\* a template rendered, a widget inserted, a redirect ...
Effect(e, data) == [e |-> e, data |-> data, scope |-> 0, to |-> {}]

\* if (x) for a JavaScript object-or-null value
JsTruthy(v) == v.t \notin {"null", "undefined"}

\* Scopes of the listeners other widgets have bound for the context reply: 0 is a listener
\* of 'oae.context.send', W a listener of 'oae.context.send.W'
ListenerScopes == {0} \cup Widgets

\* jQuery event namespaces: triggering 'oae.context.send.W' runs the handlers bound with
\* namespace W; triggering 'oae.context.send' runs every handler of the event
Delivered(scope) == {l \in ListenerScopes : scope = 0 \/ l = scope}

\* `$(document).trigger('oae.context.send' [+ '.' + widgetId], meetingProfile)`
ContextSend(scope, profile) ==
    [e |-> "trigger oae.context.send", data |-> profile, scope |-> scope, to |-> Delivered(scope)]

\* a handler that answers every request with the broadcast
ContextGetHandler_broadcast(widgetId, profile) == <<ContextSend(0, profile)>>

\* the 'oae.context.get' handler of setUpContext
ContextGetHandler(widgetId, profile) ==
    IF widgetId # 0
    THEN <<ContextSend(widgetId, profile)>>
    ELSE <<ContextSend(0, profile)>>

\* the lhNavPages structure built by setUpNavigation
NavPages(profile) ==
    [id |-> "meeting", title |-> profile.displayName,
     widgets |-> <<[name |-> "meeting", settings |-> profile], [name |-> "comments"]>>]

\* setUpClip: render the clip template from the cached profile
setUpClip(profile) == <<Effect("render meeting-clip", profile)>>

\* setUpNavigation: register the page structure now, and again on every 'ready' event
setUpNavigation(profile) ==
    <<Effect("trigger oae.trigger.lhnavigation", NavPages(profile)),
      Effect("on oae.ready.lhnavigation", JsNull)>>

\* a responder that broadcasts before it binds the request handler
setUpContext_broadcastFirst(profile) ==
    <<ContextSend(0, profile), Effect("on oae.context.get", JsNull)>>

\* setUpContext: bind the request handler, then broadcast once
setUpContext(profile) ==
    <<Effect("on oae.context.get", JsNull), ContextSend(0, profile)>>

\* setUpPushNotifications: subscribe to the meeting's activity stream
setUpPushNotifications(profile) ==
    <<Effect("push.subscribe", [resourceId |-> meetingId, signature |-> profile.signature])>>

\* a test for the not-found status instead of the access-denied status
ErrorRedirect_notFoundTest(err) == IF err.code = 404 THEN "notfound" ELSE "accessdenied"

\* the redirect taken when the initial fetch fails
ErrorRedirect(err) == IF err.code = 401 THEN "accessdenied" ELSE "notfound"

\* a setup that reveals the page and subscribes before the context responder is bound
SetUpPage_showFirst(profile) ==
    <<Effect("cache profile", profile)>>
      \o setUpClip(profile)
      \o setUpNavigation(profile)
      \o <<Effect("showPage", JsNull)>>
      \o setUpPushNotifications(profile)
      \o setUpContext(profile)

\* the effects of the success branch of getMeetingProfile's callback, in order
SetUpPage(profile) ==
    <<Effect("cache profile", profile)>>
      \o setUpClip(profile)
      \o setUpNavigation(profile)
      \o setUpContext(profile)
      \o <<Effect("showPage", JsNull)>>
      \o setUpPushNotifications(profile)

\* The callback getMeetingProfile passes to getMeeting, called with the argument list args
getMeetingProfileCallback(kind, args) ==
    LET err == Arg(args, 1)
        profile == Arg(args, 2)
    IN  IF JsTruthy(err)
        THEN /\ redirects' = Append(redirects, ErrorRedirect(err))
             /\ last' = [kind |-> kind, args |-> args, before |-> meetingProfile, raised |-> "",
                         effects |-> <<Effect("redirect", [t |-> "page", page |-> ErrorRedirect(err)])>>]
             /\ UNCHANGED <<meetingProfile, lhNavPages, clip, widgetContainer, contextHandlers,
                            readyHandlers, pageShown, subscriptions>>
        ELSE /\ meetingProfile' = profile
             /\ clip' = profile
             /\ lhNavPages' = NavPages(profile)
             /\ readyHandlers' = readyHandlers + 1
             /\ contextHandlers' = contextHandlers + 1
             /\ pageShown' = pageShown + 1
             /\ subscriptions' = Append(subscriptions, profile.signature)
             /\ last' = [kind |-> kind, args |-> args, before |-> meetingProfile, raised |-> "",
                         effects |-> SetUpPage(profile)]
             /\ UNCHANGED <<widgetContainer, redirects>>

\* the initial fetch succeeds with a profile
LoadSuccess ==
    \E s \in Slots, profile \in Profiles :
        /\ inflight[s] # NoRequest
        /\ inflight[s].callback = ProfileCallback
        /\ inflight' = [inflight EXCEPT ![s] = NoRequest]
        /\ getMeetingProfileCallback("load success", SuccessArgs(inflight[s].success, profile))

\* the initial fetch fails with a status and a body
LoadError ==
    \E s \in Slots, status \in Statuses, responseText \in ErrorBodies :
        /\ inflight[s] # NoRequest
        /\ inflight[s].callback = ProfileCallback
        /\ inflight' = [inflight EXCEPT ![s] = NoRequest]
        /\ getMeetingProfileCallback("load error", ErrorArgs(inflight[s].error, status, responseText))

-----------------------------------------------------------------------------
(* Page controller: the events of the session *)

\* what a page event leaves in `last`
EventRecord(name, input, object, raised, effects) ==
    [kind |-> "event", name |-> name, input |-> input, object |-> object,
     before |-> meetingProfile, widgetsBefore |-> Len(widgetContainer),
     raised |-> raised, effects |-> effects]

\* getManageAccessData: reads meetingProfile.tenant and meetingProfile.id, which raises a
\* TypeError while no profile is cached
getManageAccessData(profile) ==
    IF JsTruthy(profile)
    THEN [raised |-> "", data |-> [t |-> "widgetData", contextProfile |-> profile, defaultRole |-> "member"]]
    ELSE [raised |-> "TypeError", data |-> JsUndefined]

\* click on .meeting-trigger-manageaccess (event = "oae.trigger.manageaccess") or on
\* .meeting-trigger-manageaccess-add (event = "oae.trigger.manageaccess-add")
ManageAccessClick(event) ==
    LET widgetData == getManageAccessData(meetingProfile)
    IN  /\ last' = EventRecord("click " \o event, JsNull, JsNull, widgetData.raised,
                               IF widgetData.raised = ""
                               THEN <<Effect("trigger " \o event, widgetData.data)>>
                               ELSE <<>>)
        /\ UNCHANGED <<inflight, pageVars>>

ClickManageAccess == ManageAccessClick("oae.trigger.manageaccess")

ClickManageAccessAdd == ManageAccessClick("oae.trigger.manageaccess-add")

\* a refresh that inserts the new widget without emptying the container
refreshMeetingTopic_noEmpty(container, profile) ==
    Append(container, [name |-> "meeting", settings |-> profile])

\* refreshMeetingTopic: empty the widget container, insert a meeting widget configured
\* with the cached profile
refreshMeetingTopic(container, profile) ==
    Append(<<>>, [name |-> "meeting", settings |-> profile])

\* a refresh that renders the clip before it caches the profile and replaces the widget
refreshMeetingProfile_clipFirst(updatedMeeting) ==
    setUpClip(meetingProfile)
      \o <<Effect("cache profile", updatedMeeting),
           Effect("empty lhnavigation-widget-meeting", JsNull),
           Effect("insertWidget meeting", updatedMeeting)>>

\* the effects of refreshMeetingProfile(updatedMeeting), in order
refreshMeetingProfile(updatedMeeting) ==
    <<Effect("cache profile", updatedMeeting),
      Effect("empty lhnavigation-widget-meeting", JsNull),
      Effect("insertWidget meeting", updatedMeeting)>>
      \o setUpClip(updatedMeeting)

\* the 'oae.editmeeting.done' handler, run for an event of the given origin
EditMeetingDone(name, input, updatedMeeting, effectsBefore) ==
    /\ meetingProfile' = updatedMeeting
    /\ widgetContainer' = refreshMeetingTopic(widgetContainer, updatedMeeting)
    /\ clip' = updatedMeeting
    /\ last' = EventRecord(name, input, updatedMeeting, "",
                           effectsBefore \o refreshMeetingProfile(updatedMeeting))
    /\ UNCHANGED <<inflight, lhNavPages, contextHandlers, readyHandlers, pageShown,
                   subscriptions, redirects>>

\* an editing widget triggers 'oae.editmeeting.done' with the updated profile
EditDone ==
    \E updatedMeeting \in Profiles :
        EditMeetingDone("oae.editmeeting.done", updatedMeeting, updatedMeeting, <<>>)

\* a completion handler that runs the refresh procedure with the event's (absent) payload
ManageAccessDone_refresh == EditMeetingDone("oae.manageaccess.done", JsNull, JsUndefined, <<>>)

\* 'oae.manageaccess.done': re-render the clip
ManageAccessDone ==
    /\ clip' = meetingProfile
    /\ last' = EventRecord("oae.manageaccess.done", JsNull, JsNull, "", setUpClip(meetingProfile))
    /\ UNCHANGED <<inflight, meetingProfile, lhNavPages, widgetContainer, contextHandlers,
                   readyHandlers, pageShown, subscriptions, redirects>>

\* entries of a push batch; the entries after the first carry a fixed object
Activities == [actor : Actors, type : ActivityTypes, object : Profiles]
LaterActivities ==
    {a \in Activities : a.actor = "other" /\ a.type = "meeting-update" /\ a.object.displayName = MaxNames
                        /\ a.object.isManager}
RECURSIVE Tails(_)
Tails(n) == IF n = 0 THEN {<<>>} ELSE {<<>>} \cup {<<a>> \o t : a \in LaterActivities, t \in Tails(n - 1)}
Batches == {<<a>> \o t : a \in Activities, t \in Tails(MaxBatch - 1)}

\* a handler that reads the newest entry of the batch
PickActivity_last(activities) == activities[Len(activities)]

\* `var activity = activities[0];`
PickActivity(activities) == activities[1]

\* a filter that forgets the activity type
Qualifies_anyType(activity) == activity.actor # Me

\* the filter of the push handler: caused by another user, and a supported activity type
Qualifies(activity) == activity.actor # Me /\ activity.type \in supportedActivities

\* a handler that triggers the refresh with the entry's object as delivered
PushObject_noCopy(object, profile) == object

\* activity.object after the handler has copied the permission flags of the cached profile
\* into it
PushObject(object, profile) ==
    [object EXCEPT !.canShare = profile.canShare, !.canPost = profile.canPost,
                   !.isManager = profile.isManager]

\* the push subscription delivers a batch of activities
PushNotification ==
    \E activities \in Batches :
        /\ Len(subscriptions) > 0
        /\ LET activity == PickActivity(activities)
           IN  IF Qualifies(activity)
               THEN EditMeetingDone("push", activities, PushObject(activity.object, meetingProfile),
                        <<Effect("trigger oae.editmeeting.done",
                                 PushObject(activity.object, meetingProfile))>>)
               ELSE /\ last' = EventRecord("push", activities, activity.object, "", <<>>)
                    /\ UNCHANGED <<inflight, pageVars>>

\* a widget triggers 'oae.context.get', with its id (directed) or without (0)
ContextGet ==
    \E widgetId \in {0} \cup Widgets :
        /\ last' = EventRecord("oae.context.get", [t |-> "widgetId", widgetId |-> widgetId], JsNull, "",
                               IF contextHandlers > 0
                               THEN ContextGetHandler(widgetId, meetingProfile)
                               ELSE <<>>)
        /\ UNCHANGED <<inflight, pageVars>>

\* the navigation widget announces 'oae.ready.lhnavigation': the handler bound by
\* setUpNavigation registers the captured page structure again
NavigationReady ==
    /\ last' = EventRecord("oae.ready.lhnavigation", JsNull, JsNull, "",
                           IF readyHandlers > 0
                           THEN <<Effect("trigger oae.trigger.lhnavigation", lhNavPages)>>
                           ELSE <<>>)
    /\ UNCHANGED <<inflight, pageVars>>

-----------------------------------------------------------------------------
(* Specifications *)

NoLast == [kind |-> "init"]

\* the API client before any call; no page is loaded
InitApi ==
    /\ inflight = [s \in Slots |-> NoRequest]
    /\ last = NoLast
    /\ meetingProfile = JsNull
    /\ lhNavPages = JsNull
    /\ clip = JsUndefined
    /\ widgetContainer = <<>>
    /\ contextHandlers = 0
    /\ readyHandlers = 0
    /\ pageShown = 0
    /\ subscriptions = <<>>
    /\ redirects = <<>>

\* the page after its script has run: handlers bound, getMeetingProfile() called
InitPage ==
    /\ inflight = [s \in Slots |-> IF s = 1 THEN getMeeting(meetingId, ProfileCallback).ajax ELSE NoRequest]
    /\ last = NoLast
    /\ meetingProfile = JsNull
    /\ lhNavPages = JsNull
    /\ clip = JsUndefined
    /\ widgetContainer = <<>>
    /\ contextHandlers = 0
    /\ readyHandlers = 0
    /\ pageShown = 0
    /\ subscriptions = <<>>
    /\ redirects = <<>>

NextApi ==
    \/ Call_getMeeting
    \/ Call_createMeeting
    \/ Call_updateMeeting
    \/ Call_startMeeting
    \/ Call_deleteMeeting
    \/ Call_getMembers
    \/ Call_updateMembers
    \/ Call_shareMeeting
    \/ Call_getLibrary
    \/ Call_deleteMeetingFromLibrary
    \/ Call_endMeeting
    \/ Call_infoMeeting
    \/ Call_getRecording
    \/ Call_updateRecording
    \/ Call_deleteRecording
    \/ Call_getInvitations
    \/ Call_resendInvitation
    \/ AjaxSuccess
    \/ AjaxError

NextPage ==
    \/ LoadSuccess
    \/ LoadError
    \/ ClickManageAccess
    \/ ClickManageAccessAdd
    \/ ManageAccessDone
    \/ EditDone
    \/ PushNotification
    \/ ContextGet
    \/ NavigationReady

SpecApi == InitApi /\ [][NextApi]_vars

SpecPage == InitPage /\ [][NextPage]_vars

\* the page together with the API calls its widgets make while it is open: the editing
\* widget updates the meeting, the manage-access widget updates its members
NextSession ==
    \/ NextPage
    \/ Call_updateMeeting
    \/ Call_updateMembers
    \/ AjaxSuccess
    \/ AjaxError

SpecSession == InitPage /\ [][NextSession]_vars

\* the API client with room for MaxOutstanding requests in flight at a time
InitConcurrent ==
    /\ inflight = [s \in 1..MaxOutstanding |-> NoRequest]
    /\ last = NoLast
    /\ meetingProfile = JsNull
    /\ lhNavPages = JsNull
    /\ clip = JsUndefined
    /\ widgetContainer = <<>>
    /\ contextHandlers = 0
    /\ readyHandlers = 0
    /\ pageShown = 0
    /\ subscriptions = <<>>
    /\ redirects = <<>>

NextConcurrent ==
    \/ Call_getMeeting
    \/ Call_updateMeeting
    \/ Call_getRecording
    \/ AjaxSuccess
    \/ AjaxError

SpecConcurrent == InitConcurrent /\ [][NextConcurrent]_vars

-----------------------------------------------------------------------------
(* Claims about the API client, checked under SpecApi *)

\* the last step was a call of an API function
IsCall == last.kind \in {"throw", "issued"}
\* the last step was the completion of a request
IsCompletion == last.kind \in {"success", "error"}

\* a required identifier, topic or email argument of the call is absent or empty
MissingIdArgument(args, fields) ==
    \E f \in fields \cap DOMAIN args : args[f] \in {Undefined, EmptyString}
\* a required map argument of the call is absent or has no key
MissingMapArgument(args) ==
    \E f \in {"params", "updatedMembers"} \cap DOMAIN args :
        args[f].t = "undefined" \/ args[f].keys = {}
\* the required principals list of the call is absent or empty
MissingListArgument(args) ==
    "principals" \in DOMAIN args /\ (args.principals.t = "undefined" \/ args.principals.items = <<>>)

IdFields == {"meetingId", "principalId", "recordingId", "displayName"}

\* C1: every call with a required argument (an id, the topic, the params map, the
\* updatedMembers map, the principals list, the email of resendInvitation) absent or
\* empty throws, issues no request and invokes no callback.
C1_RequiredArgumentsValidated ==
    (IsCall /\ (\/ MissingIdArgument(last.args, IdFields \cup {"email"})
                \/ MissingMapArgument(last.args)
                \/ MissingListArgument(last.args)))
        => (last.kind = "throw" /\ last.invocations = <<>>)

\* C2: a failed response with status S and body B makes the request's callback run exactly
\* once, with {code: S, msg: B} as its first argument, and nothing is raised; the 404
\* handler of getRecording neither suppresses nor repeats the call.
C2_FailureReported ==
    (last.kind = "error" /\ last.request.callback # NoCallback)
        => /\ last.raised = ""
           /\ Len(last.invocations) = 1
           /\ last.invocations[1].cb = last.request.callback
           /\ Arg(last.invocations[1].args, 1) = [t |-> "error", code |-> last.status, msg |-> last.body]

\* C2 witness: getRecording, called with a callback, has failed with 404: the status
\* handler has logged and the caller's callback has run
C2_Witness ==
    /\ last.kind = "error"
    /\ last.op = "getRecording"
    /\ last.status = 404
    /\ last.logs # <<>>
    /\ Len(last.invocations) = 1
    /\ last.invocations[1].cb = CallerCallback(last.slot)

\* the endpoints whose success function passes no response body on
NoBodyOps ==
    {"startMeeting", "deleteMeeting", "updateMembers", "deleteMeetingFromLibrary",
     "endMeeting", "resendInvitation"}

\* C3: a successful response makes the callback run with null as its first argument, and
\* with the response body as its second, or with null alone for the endpoints without a body.
C3_SuccessReported ==
    (last.kind = "success" /\ last.request.callback # NoCallback)
        => /\ Len(last.invocations) = 1
           /\ Arg(last.invocations[1].args, 1) = JsNull
           /\ IF last.op \in NoBodyOps
              THEN last.invocations[1].args = <<JsNull>>
              ELSE Arg(last.invocations[1].args, 2) = last.body

\* the functions that declare their callback optional
OptionalCallbackOps ==
    {"createMeeting", "updateMeeting", "startMeeting", "deleteMeeting", "updateMembers",
     "shareMeeting", "deleteMeetingFromLibrary", "endMeeting", "infoMeeting", "getRecording",
     "updateRecording", "deleteRecording"}

\* C4, as stated: completing a request made without a callback never raises, for any
\* function of the API client.
C4_NoCallbackIsSafe == IsCompletion => last.raised = ""

\* C4, amended: the functions that declare their callback optional replace an absent
\* callback by a no-op, and the completion of their requests never raises; getMeeting,
\* getMembers, getLibrary, getInvitations and resendInvitation keep the absent callback, and
\* the completion of a request made without one raises a TypeError.
C4_OptionalCallbackIsSafe ==
    IsCompletion =>
        IF last.op \in OptionalCallbackOps
        THEN last.request.callback # NoCallback /\ last.raised = ""
        ELSE (last.request.callback = NoCallback) <=> (last.raised = "TypeError")

\* C4 witness: a request createMeeting made without a callback has completed, the no-op
\* was called and nothing was raised
C4_Witness ==
    /\ IsCompletion
    /\ last.op = "createMeeting"
    /\ last.request.callback = Noop
    /\ last.raised = ""

-----------------------------------------------------------------------------
(* Claims about the page controller, checked under SpecPage *)

\* the names of a sequence of effects, in order
EffectNames(effects) == [i \in 1..Len(effects) |-> effects[i].e]
\* how many effects of a sequence carry the name e
CountEffects(effects, e) == Cardinality({i \in 1..Len(effects) : effects[i].e = e})

\* C5: a failed initial fetch redirects exactly once: to the access-denied page when the
\* error code is 401, to the not-found page for any other code, and never to both.
C5_ErrorRouting ==
    /\ Len(redirects) <= 1
    /\ last.kind = "load error" =>
          LET code == Arg(last.args, 1).code
              page == IF code = 401 THEN "accessdenied" ELSE "notfound"
          IN  /\ redirects = <<page>>
              /\ last.effects = <<Effect("redirect", [t |-> "page", page |-> page])>>

\* C5 witness: the fetch has failed with a code other than 401 and other than 404, and the
\* page was sent to not-found
C5_Witness ==
    /\ last.kind = "load error"
    /\ Arg(last.args, 1).code = 500
    /\ redirects = <<"notfound">>

\* the one-time setup steps, in the order the claim gives them
SetupOrder ==
    <<"cache profile", "render meeting-clip", "trigger oae.trigger.lhnavigation",
      "on oae.ready.lhnavigation", "on oae.context.get", "trigger oae.context.send",
      "showPage", "push.subscribe">>

\* C6: a successful initial fetch runs every setup step once, in the order: cache the
\* profile, render the clip, register the navigation, bind the context responder and
\* broadcast, reveal the page, subscribe to push; no step is ever run a second time, and the
\* page is never revealed nor push subscribed while no context responder is bound.
C6_SetupOrder ==
    /\ last.kind = "load success" =>
          /\ EffectNames(last.effects) = SetupOrder
          /\ meetingProfile = Arg(last.args, 2)
          /\ clip = meetingProfile
          /\ lhNavPages.widgets[1].settings = meetingProfile
    /\ contextHandlers <= 1 /\ readyHandlers <= 1 /\ pageShown <= 1 /\ Len(subscriptions) <= 1
    /\ (pageShown > 0 \/ subscriptions # <<>>) => contextHandlers = 1

\* C6 witness: the fetch has succeeded and the page is set up
C6_Witness ==
    /\ last.kind = "load success"
    /\ pageShown = 1
    /\ subscriptions = <<"sig">>
    /\ contextHandlers = 1
    /\ readyHandlers = 1

\* the last step was a context request made after the responder was bound
IsContextRequest == last.kind = "event" /\ last.name = "oae.context.get" /\ contextHandlers > 0

\* C7: once the profile is loaded, a context request is answered at once with the profile
\* cached at that moment: without a widget id by one 'oae.context.send' broadcast, with
\* widget id W by one 'oae.context.send.W' that reaches the listeners scoped to W only.
C7_ContextReply ==
    IsContextRequest =>
        /\ Len(last.effects) = 1
        /\ last.effects[1].e = "trigger oae.context.send"
        /\ last.effects[1].data = meetingProfile
        /\ last.effects[1].scope = last.input.widgetId
        /\ IF last.input.widgetId = 0
           THEN last.effects[1].to = ListenerScopes
           ELSE last.effects[1].to = {last.input.widgetId}

\* C7 witness: a directed request made after a refresh has been answered to its widget
\* alone, with the refreshed profile
C7_Witness ==
    /\ IsContextRequest
    /\ last.input.widgetId = 1
    /\ meetingProfile # lhNavPages.widgets[1].settings
    /\ last.effects[1].data = meetingProfile
    /\ last.effects[1].to = {1}

\* the first entry of the batch was caused by another user and has a supported type
FirstEntryQualifies(activities) ==
    /\ activities[1].actor # Me
    /\ activities[1].type \in {"meeting-update", "meeting-update-visibility"}

IsPush == last.kind = "event" /\ last.name = "push"

\* C8: a push batch whose first entry qualifies triggers one refresh: one edit-done event,
\* one widget re-insert, one clip render; afterwards the cached profile is that entry's
\* object (as the handler leaves it), and the views show it.
C8_QualifyingPushRefreshes ==
    (IsPush /\ FirstEntryQualifies(last.input)) =>
        /\ CountEffects(last.effects, "trigger oae.editmeeting.done") = 1
        /\ CountEffects(last.effects, "insertWidget meeting") = 1
        /\ CountEffects(last.effects, "render meeting-clip") = 1
        /\ Len(last.effects) = 5
        /\ meetingProfile = last.object
        /\ meetingProfile.displayName = last.input[1].object.displayName
        /\ clip = meetingProfile
        /\ widgetContainer = <<[name |-> "meeting", settings |-> meetingProfile]>>

\* C8 witness: a batch of two entries, the first one qualifying and carrying another
\* display name than the cached profile and than the second entry, has refreshed the profile
C8_Witness ==
    /\ IsPush
    /\ Len(last.input) = 2
    /\ FirstEntryQualifies(last.input)
    /\ last.input[1].object.displayName # last.before.displayName
    /\ last.input[1].object.displayName # last.input[2].object.displayName
    /\ meetingProfile.displayName = last.input[1].object.displayName

\* C9: a push batch whose first entry was caused by the viewer, or has an unsupported
\* type, triggers nothing and leaves the cached profile, the clip and the widget as they
\* were, whatever its later entries are.
C9_OtherPushIgnored ==
    [][(last'.kind = "event" /\ last'.name = "push" /\ ~FirstEntryQualifies(last'.input))
          => /\ last'.effects = <<>>
             /\ meetingProfile' = meetingProfile
             /\ clip' = clip
             /\ widgetContainer' = widgetContainer
             /\ lhNavPages' = lhNavPages]_vars

\* C9 witness: a batch whose first entry is the viewer's own and whose second entry
\* qualifies has been ignored
C9_Witness ==
    /\ IsPush
    /\ Len(last.input) = 2
    /\ last.input[1].actor = Me
    /\ FirstEntryQualifies(Tail(last.input))
    /\ last.input[2].object.displayName # meetingProfile.displayName
    /\ last.effects = <<>>

IsEditDone == last.kind = "event" /\ last.name = "oae.editmeeting.done"

\* C10: refresh is idempotent: after the edit-done event has delivered P the cached profile
\* is P, the clip shows P and the widget container holds one meeting widget configured with
\* P; delivering P a second time changes none of it.
C10_RefreshIdempotent ==
    /\ [](IsEditDone =>
            /\ meetingProfile = last.input
            /\ clip = last.input
            /\ widgetContainer = <<[name |-> "meeting", settings |-> last.input]>>)
    /\ [][(IsEditDone /\ last'.kind = "event" /\ last'.name = "oae.editmeeting.done"
              /\ last'.input = last.input)
            => UNCHANGED <<inflight, pageVars>>]_vars

\* C10 witness: P has been delivered to a controller that already showed P in its widget,
\* and the container holds one widget
C10_Witness ==
    /\ IsEditDone
    /\ last.before = last.input
    /\ last.widgetsBefore = 1
    /\ Len(widgetContainer) = 1

-----------------------------------------------------------------------------
(* Further claims about the page controller, checked under SpecPage *)

\* the initial fetch has succeeded and the page is set up
Loaded == pageShown > 0

\* the profile an effect carries: the settings of the meeting widget for a navigation
\* registration, the data of the effect otherwise
CarriedProfile(effect) ==
    IF effect.e = "trigger oae.trigger.lhnavigation" THEN effect.data.widgets[1].settings ELSE effect.data

ProfileEffects ==
    {"render meeting-clip", "trigger oae.trigger.lhnavigation", "trigger oae.context.send",
     "insertWidget meeting"}

\* C11: after the load, every clip render, navigation registration, widget insert and
\* context broadcast carries the profile cached at the moment it is emitted; a navigation
\* registration sent again on 'oae.ready.lhnavigation' after a refresh carries the
\* refreshed profile.
C11_EffectsCarryCurrentProfile ==
    (Loaded /\ last.kind \in {"load success", "event"}) =>
        \A i \in 1..Len(last.effects) :
            last.effects[i].e \in ProfileEffects => CarriedProfile(last.effects[i]) = meetingProfile


PermissionFlags == {"canShare", "canPost", "isManager"}

\* C12 (as stated): after a refresh by the edit-done event or by a qualifying push, every
\* field of the cached profile, the permission flags included, has the value delivered in
\* the triggering payload (the event's profile, the first entry's object).
C12_RefreshReplaces ==
    /\ IsEditDone => meetingProfile = last.input
    /\ (IsPush /\ FirstEntryQualifies(last.input)) => meetingProfile = last.input[1].object

\* C12 (amended): after the edit-done event the cached profile is the delivered profile,
\* field by field; after a qualifying push every field is the one of the first entry's
\* object, except canShare, canPost and isManager, which keep the values of the profile
\* cached before the push.
C12_RefreshReplacesExceptPermissions ==
    /\ IsEditDone => meetingProfile = last.input
    /\ (IsPush /\ FirstEntryQualifies(last.input)) =>
          /\ DOMAIN meetingProfile = DOMAIN last.input[1].object
          /\ \A f \in DOMAIN meetingProfile :
                meetingProfile[f] = IF f \in PermissionFlags
                                    THEN last.before[f]
                                    ELSE last.input[1].object[f]

\* C12 witness: a qualifying push has delivered an object whose display name and permission
\* flags all differ from the cached profile's, and the profile has been refreshed
C12_Witness ==
    /\ IsPush
    /\ FirstEntryQualifies(last.input)
    /\ last.input[1].object.displayName # last.before.displayName
    /\ \A f \in {"canShare", "canPost"} : last.input[1].object[f] # last.before[f]
    /\ meetingProfile.displayName = last.input[1].object.displayName


\* C13: while the controller awaits the initial load (the fetch is outstanding or has
\* failed) the cached profile is absent, and no clip, no meeting widget and no manage-access
\* payload has been produced from a profile, whatever events have arrived.
C13_AbsentUntilLoaded ==
    ~Loaded =>
        /\ meetingProfile = JsNull
        /\ clip.t # "profile"
        /\ widgetContainer = <<>>
        /\ last.kind = "event" =>
              \A i \in 1..Len(last.effects) :
                  last.effects[i].e \notin {"trigger oae.trigger.manageaccess",
                                            "trigger oae.trigger.manageaccess-add"}


\* the step was a refresh: an edit-done event, or a push whose first entry qualifies
IsRefresh == IsEditDone \/ (IsPush /\ FirstEntryQualifies(last.input))

\* the steps of the refresh procedure, in order
RefreshOrder ==
    <<"cache profile", "empty lhnavigation-widget-meeting", "insertWidget meeting", "render meeting-clip">>

\* the effects of the step from the replacement of the cached profile on
RefreshPart(effects) ==
    SubSeq(effects, CHOOSE i \in 1..Len(effects) : effects[i].e = "cache profile", Len(effects))

\* C14: both refresh triggers run one procedure with the delivered profile P: the cached
\* profile becomes P, then the widget container is emptied and one meeting widget configured
\* with P is inserted, then the clip is rendered from P; nothing else happens after the
\* replacement, and after every refresh the cached profile, the clip and the widget show the
\* P of that refresh (the last one wins).
C14_SameRefreshProcedure ==
    IsRefresh =>
        LET P == last.object
            part == RefreshPart(last.effects)
        IN  /\ CountEffects(last.effects, "cache profile") = 1
            /\ EffectNames(part) = RefreshOrder
            /\ part[1].data = P /\ part[3].data = P /\ part[4].data = P
            /\ IsEditDone => (P = last.input /\ Len(last.effects) = 4)
            /\ IsPush => /\ P.displayName = last.input[1].object.displayName
                         /\ Len(last.effects) = 5
                         /\ last.effects[1] = Effect("trigger oae.editmeeting.done", P)
            /\ meetingProfile = P
            /\ clip = P
            /\ widgetContainer = <<[name |-> "meeting", settings |-> P]>>

\* C14 witness: a qualifying push has refreshed a profile that an earlier refresh had cached,
\* with another display name
C14_Witness ==
    /\ IsPush
    /\ FirstEntryQualifies(last.input)
    /\ last.widgetsBefore = 1
    /\ last.before.displayName # last.object.displayName
    /\ meetingProfile = last.object


\* the positions of the effects named e
Positions(effects, e) == {i \in 1..Len(effects) : effects[i].e = e}

\* C15: the successful load broadcasts the loaded profile once, to every listener, right
\* after it binds the 'oae.context.get' handler and before it reveals the page, and it
\* happens once per page; no other step but a context request answered by the bound handler
\* sends a context message; a request made before the handler is bound has no effect, and
\* the load that follows it sends only that one broadcast, whatever was requested before.
C15_BroadcastOnceAfterRegistering ==
    /\ [](last.kind = "load success" =>
            LET sends == Positions(last.effects, "trigger oae.context.send")
            IN  /\ Cardinality(sends) = 1
                /\ \A i \in sends :
                      /\ i > 1 /\ last.effects[i - 1].e = "on oae.context.get"
                      /\ \E j \in Positions(last.effects, "showPage") : i < j
                      /\ last.effects[i].scope = 0
                      /\ last.effects[i].to = ListenerScopes
                      /\ last.effects[i].data = meetingProfile)
    /\ []((last.kind = "load error" \/ (last.kind = "event" /\ last.name # "oae.context.get"))
            => Positions(last.effects, "trigger oae.context.send") = {})
    /\ []((last.kind = "event" /\ last.name = "oae.context.get" /\ contextHandlers = 0)
            => last.effects = <<>>)
    /\ [][last'.kind = "load success" => (contextHandlers = 0 /\ contextHandlers' = 1 /\ pageShown = 0)]_vars

\* C15 witness: a widget asked for the context with its id before the handler was bound
\* and got nothing
C15_Witness ==
    /\ last.kind = "event"
    /\ last.name = "oae.context.get"
    /\ last.input.widgetId # 0
    /\ contextHandlers = 0
    /\ last.effects = <<>>


\* the initial fetch has failed
LoadFailed == redirects # <<>>

\* C16: the one initial fetch is never issued again, and once it has failed no setup step
\* runs: the profile stays absent, no clip is rendered from a profile, no navigation
\* structure is built or registered, no context or ready handler is bound, the page is not
\* revealed and nothing is subscribed.
C16_FailedLoadSetsNothingUp ==
    /\ Cardinality({s \in Slots : inflight[s] # NoRequest}) <= 1
    /\ Len(redirects) + pageShown <= 1
    /\ LoadFailed =>
          /\ \A s \in Slots : inflight[s] = NoRequest
          /\ meetingProfile = JsNull
          /\ clip.t # "profile"
          /\ lhNavPages = JsNull
          /\ contextHandlers = 0
          /\ readyHandlers = 0
          /\ pageShown = 0
          /\ subscriptions = <<>>


-----------------------------------------------------------------------------
(* Further claims about the API client *)

\* C17: a call updateRecording(recordingId, publish) with a recording id issues one PATCH
\* request to /api/recording/<recordingId> whose 'publish' field is the publish value passed.
C17_UpdateRecordingSendsPublish ==
    (last.kind = "issued" /\ last.op = "updateRecording") =>
        /\ inflight[last.slot].type = "PATCH"
        /\ inflight[last.slot].url = <<"/api/recording/", last.args.recordingId>>
        /\ inflight[last.slot].data.publish = last.args.publish


-----------------------------------------------------------------------------
(* Claims about the page and the API client together, checked under SpecSession *)

\* C18: the cached profile changes only in the success branch of the initial fetch, in the
\* edit-done handler and on a push whose first entry qualifies; context requests,
\* manage-access clicks, the manage-access completion, 'oae.ready.lhnavigation', a failed
\* load, and every call and completion of the API client leave it as it was; the
\* manage-access completion renders the clip from that unchanged profile.
C18_ProfileWrittenOnlyByLoadAndRefresh ==
    [][/\ meetingProfile' # meetingProfile =>
             \/ last'.kind = "load success"
             \/ /\ last'.kind = "event"
                /\ \/ last'.name = "oae.editmeeting.done"
                   \/ last'.name = "push" /\ FirstEntryQualifies(last'.input)
       /\ (last'.kind = "event" /\ last'.name \in {"oae.context.get", "click oae.trigger.manageaccess",
                                                    "click oae.trigger.manageaccess-add",
                                                    "oae.manageaccess.done", "oae.ready.lhnavigation"})
             => meetingProfile' = meetingProfile
       /\ (last'.kind = "event" /\ last'.name = "oae.manageaccess.done")
             => /\ last'.effects = <<Effect("render meeting-clip", meetingProfile)>>
                /\ clip' = meetingProfile
       /\ last'.kind \in {"throw", "issued", "success", "error"} => UNCHANGED pageVars]_vars

\* C18 witness: the manage-access completion has arrived on a loaded page whose profile a
\* refresh had replaced, and the clip shows that profile
C18_Witness ==
    /\ last.kind = "event"
    /\ last.name = "oae.manageaccess.done"
    /\ Loaded
    /\ meetingProfile = last.before
    /\ meetingProfile # lhNavPages.widgets[1].settings
    /\ clip = meetingProfile


-----------------------------------------------------------------------------
(* Claims about concurrent API calls, checked under SpecConcurrent *)

\* the callback a call leaves with its request: the caller's, or the no-op where the
\* function defaults an absent one
SuppliedCallback(op, callback) ==
    IF callback = NoCallback /\ op \in OptionalCallbackOps THEN Noop ELSE callback

\* C19: with several requests in flight, completed in any order: the completion of a request
\* calls the callback left with that request once, at that step, with the status and body
\* of that response, and it leaves every other request in flight as it was; a call adds its
\* own request with its own callback and touches no other; nothing else is kept.
C19_CompletionsAreIndependent ==
    [][/\ last'.kind \in {"success", "error"} =>
             LET s == last'.slot
                 r == inflight[s]
             IN  /\ r # NoRequest
                 /\ last'.request = r
                 /\ r.callback # NoCallback =>
                       /\ Len(last'.invocations) = 1
                       /\ last'.invocations[1].cb = r.callback
                       /\ IF last'.kind = "success"
                          THEN last'.invocations[1].args = <<JsNull, last'.body>>
                          ELSE /\ last'.invocations[1].args[1].code = last'.status
                               /\ last'.invocations[1].args[1].msg = last'.body
                 /\ inflight' = [inflight EXCEPT ![s] = NoRequest]
       /\ last'.kind = "issued" =>
             LET s == last'.slot
             IN  /\ inflight[s] = NoRequest
                 /\ inflight'[s].op = last'.op
                 /\ inflight'[s].callback = SuppliedCallback(last'.op, last'.args.callback)
                 /\ \A u \in DOMAIN inflight \ {s} : inflight'[u] = inflight[u]
       /\ last'.kind = "throw" => inflight' = inflight
       /\ UNCHANGED pageVars]_vars

\* C19 witness: the request of slot 2, issued while the request of slot 1 was in flight, has
\* failed and its own callback has been called, while the request of slot 1, which carries
\* another callback, is still in flight
C19_Witness ==
    /\ last.kind = "error"
    /\ last.slot = 2
    /\ last.request.callback = CallerCallback(2)
    /\ last.invocations = <<[cb |-> CallerCallback(2), args |-> <<ErrorObject(last.status, last.body)>>]>>
    /\ inflight[1] # NoRequest
    /\ inflight[1].callback = CallerCallback(1)
    /\ inflight[2] = NoRequest

====
